---- MODULE Spec2Model ----
(***************************************************************************)
(* A model of py-apple-foundation: the generation and transcription        *)
(* wrappers of src/src/apple_foundation (foundation.py, transcription.py), *)
(* which resolve a cached helper binary, build its command line, run it    *)
(* and decode what it printed.                                             *)
(*                                                                         *)
(* Text is a sequence of pieces.  A piece is one of the characters the     *)
(* program's text operations tell apart ("_", "-", whitespace, "{", "}",   *)
(* a digit, a quote) or one indivisible run of other characters ("top",    *)
(* "--model", a message prefix, a path).  A str is a Text; an optional     *)
(* value is [some, v].                                                     *)
(*                                                                         *)
(* State: src and bin are the modification times of the Swift sources and  *)
(* of the cached binaries (0: no such file), partial the names whose       *)
(* cached file is not a complete binary, and now the time a compile stamps *)
(* on what it writes; pc, call, proc and iter are the call in hand:        *)
(* its arguments, command and outcome, the child process it ran, and the   *)
(* generator a streaming transcribe returned.                              *)
(***************************************************************************)
EXTENDS Integers, Sequences, FiniteSets, TLC

VARIABLES src, bin, partial, now, pc, call, proc, iter

vars == <<src, bin, partial, now, pc, call, proc, iter>>

(***************************************************************************)
(* Bounds of the model.                                                    *)
(***************************************************************************)
\* the longest standard output, in lines, of a streaming child process
MaxLines == 2

\* the longest tool list handed to the converter
MaxTools == 3

\* the latest time of the clock and of a file's modification time
MaxTime == 3

\* what a pipe between the child and the consumer holds before a write to
\* it blocks, in lines of standard output or chunks of standard error
PipeCapacity == 2

\* the most writes a streaming child makes before it exits
MaxWrites == 4

\* the callers of the resolver that run at the same time
NumCallers == 2

(***************************************************************************)
(* Text.                                                                   *)
(***************************************************************************)
\* the characters str.strip() removes (those of them the model's alphabet has)
PyWhitespace == {" ", "\n", "\t", "\r", "\f"}

\* the characters json.loads skips around a value
JsonWhitespace == {" ", "\n", "\t", "\r"}

Digits == {"0", "1"}

RECURSIVE LStripSet(_, _)
LStripSet(t, ws) ==
    IF t # <<>> /\ Head(t) \in ws THEN LStripSet(Tail(t), ws) ELSE t

RECURSIVE RStripSet(_, _)
RStripSet(t, ws) ==
    IF t # <<>> /\ t[Len(t)] \in ws
    THEN RStripSet(SubSeq(t, 1, Len(t) - 1), ws)
    ELSE t

\* str.strip()
Strip(t) == RStripSet(LStripSet(t, PyWhitespace), PyWhitespace)

\* str.replace(old, new) for one-character old and new
Replace(t, old, new) == [i \in 1..Len(t) |-> IF t[i] = old THEN new ELSE t[i]]

\* sub in t
Contains(t, sub) ==
    \E i \in 0..(Len(t) - Len(sub)) : SubSeq(t, i + 1, i + Len(sub)) = sub

\* a line of a text stream without its terminator
Chomp(t) == IF t # <<>> /\ t[Len(t)] = "\n" THEN SubSeq(t, 1, Len(t) - 1) ELSE t

DigitText(d) == <<CASE d = 0 -> "0" [] d = 1 -> "1" [] d = 2 -> "2" [] d = 3 -> "3"
                    [] d = 4 -> "4" [] d = 5 -> "5" [] d = 6 -> "6" [] d = 7 -> "7"
                    [] d = 8 -> "8" [] OTHER -> "9">>

RECURSIVE NatText(_)
NatText(n) == IF n < 10 THEN DigitText(n) ELSE NatText(n \div 10) \o DigitText(n % 10)

\* str(n) for an int
IntText(n) == IF n < 0 THEN <<"-">> \o NatText(-n) ELSE NatText(n)

\* str(x) for a float held in tenths: 7 is 0.7, 10 is 1.0
FloatText(x) == NatText(x \div 10) \o <<".">> \o DigitText(x % 10)

(***************************************************************************)
(* Optional values: None and Some(v).                                      *)
(***************************************************************************)
NoneText == [some |-> FALSE, v |-> <<>>]

SomeText(t) == [some |-> TRUE, v |-> t]

NoneInt == [some |-> FALSE, v |-> 0]

SomeInt(n) == [some |-> TRUE, v |-> n]

\* bool(x) for an optional str: None and "" are false
Truthy(o) == o.some /\ o.v # <<>>

\* a or b
Or(a, b) == IF Truthy(a) THEN a ELSE b

(***************************************************************************)
(* JSON values: [k, n, s, items]; an object's items are [key, val] pairs   *)
(* in insertion order, an array's items carry the empty key.               *)
(***************************************************************************)
JNum(n) == [k |-> "num", n |-> n, s |-> <<>>, items |-> <<>>]

JStr(s) == [k |-> "str", n |-> 0, s |-> s, items |-> <<>>]

JObj(members) == [k |-> "obj", n |-> 0, s |-> <<>>, items |-> members]

JArr(elems) ==
    [k |-> "arr", n |-> 0, s |-> <<>>,
     items |-> [i \in 1..Len(elems) |-> [key |-> <<>>, val |-> elems[i]]]]

Member(key, val) == [key |-> key, val |-> val]

RECURSIVE JsonDumps(_)
RECURSIVE DumpItems(_, _)
\* the items of an object or array, joined by ", "
DumpItems(items, isObj) ==
    IF items = <<>> THEN <<>>
    ELSE LET one == (IF isObj
                     THEN <<"\"">> \o Head(items).key \o <<"\"", ":", " ">>
                     ELSE <<>>) \o JsonDumps(Head(items).val)
         IN  IF Len(items) = 1 THEN one
             ELSE one \o <<",", " ">> \o DumpItems(Tail(items), isObj)

\* json.dumps(v) with the default separators
JsonDumps(v) ==
    CASE v.k = "num" -> IntText(v.n)
      [] v.k = "str" -> <<"\"">> \o v.s \o <<"\"">>
      [] v.k = "obj" -> <<"{">> \o DumpItems(v.items, TRUE) \o <<"}">>
      [] OTHER       -> <<"[">> \o DumpItems(v.items, FALSE) \o <<"]">>

\* the JSON value between the whitespace json.loads skips
JsonCore(t) == RStripSet(LStripSet(t, JsonWhitespace), JsonWhitespace)

IsJsonNumber(c) ==
    /\ c # <<>>
    /\ \A i \in 1..Len(c) : c[i] \in Digits
    /\ (Len(c) > 1 => c[1] # "0")

IsJsonEmptyObject(c) ==
    /\ Len(c) >= 2
    /\ c[1] = "{"
    /\ c[Len(c)] = "}"
    /\ \A i \in 2..(Len(c) - 1) : c[i] \in JsonWhitespace

\* json.loads(t) does not raise JSONDecodeError.  Over the alphabet of the
\* model's process output (digits, braces, a letter, whitespace) the JSON
\* documents are the numbers and the empty object.
JsonValid(t) == IsJsonNumber(JsonCore(t)) \/ IsJsonEmptyObject(JsonCore(t))

RECURSIVE DigitsValue(_)
DigitsValue(c) ==
    IF c = <<>> THEN 0
    ELSE 10 * DigitsValue(SubSeq(c, 1, Len(c) - 1)) + (IF c[Len(c)] = "1" THEN 1 ELSE 0)

\* json.loads(t), for a t that JsonValid accepts
JsonLoads(t) ==
    IF IsJsonNumber(JsonCore(t)) THEN JNum(DigitsValue(JsonCore(t))) ELSE JObj(<<>>)

JNull == [k |-> "null", n |-> 0, s |-> <<>>, items |-> <<>>]

(***************************************************************************)
(* Results of a call, the child process, the iterator.                     *)
(***************************************************************************)
ReturnText(t) == [kind |-> "return", exc |-> "", text |-> t, isJson |-> FALSE, json |-> JNull]

ReturnJson(v) == [kind |-> "return", exc |-> "", text |-> <<>>, isJson |-> TRUE, json |-> v]

Raise(exc, msg) == [kind |-> "raise", exc |-> exc, text |-> msg, isJson |-> FALSE, json |-> JNull]

ReturnIterator == [kind |-> "iterator", exc |-> "", text |-> <<>>, isJson |-> FALSE, json |-> JNull]

NoResult == [kind |-> "none", exc |-> "", text |-> <<>>, isJson |-> FALSE, json |-> JNull]

\* the child process: its exit status and what it writes; lines is its standard
\* output as the lines a text-mode reader sees, stderrPipe whether
\* process.stderr is a pipe object
NoProc ==
    [spawned |-> FALSE, rc |-> 0, stdout |-> <<>>, lines |-> <<>>, stderr |-> <<>>,
     stderrPipe |-> FALSE]

\* an item a streaming call yields: a str or a parsed record
TextItem(t) == [isJson |-> FALSE, text |-> t, json |-> JNull]

JsonItem(v) == [isJson |-> TRUE, text |-> <<>>, json |-> v]

\* the generator result_iterator: pos lines read, the items yielded so far,
\* whether process.wait() has been called, how the last next() ended
NoIter ==
    [state |-> "none", pos |-> 0, yielded |-> <<>>, waited |-> FALSE, last |-> "none",
     error |-> <<>>]

\* a call: its arguments, how often it invoked the resolver and spawned a
\* process, the command it ran, and its outcome
CallRecord(op, a, resolver, spawned, cmd, result) ==
    [op |-> op, args |-> a, resolver |-> resolver, spawned |-> spawned, cmd |-> cmd,
     result |-> result]

NoCall == CallRecord("none", <<>>, 0, 0, <<>>, NoResult)

(***************************************************************************)
(* The binary resolver, foundation.py.  src[name] and bin[name] are the    *)
(* modification times of the Swift source and of the cached binary, 0 for  *)
(* a file that does not exist.                                             *)
(***************************************************************************)
Names == {"generate", "transcribe"}

\* _get_cache_dir() / name
BinaryPath(name) == <<"~/.cache/apple-foundation/bin/", name>>

\* _get_swift_source_dir() / f"{name}.swift"
SourcePath(name) == <<"swift/", name, ".swift">>

\* what subprocess.run(["swiftc", ...], check=True) can do
CompileOutcomes ==
    { [kind |-> "ok", stderr |-> <<>>],
      [kind |-> "fail", stderr |-> <<"error: expected expression">>],
      [kind |-> "missing", stderr |-> <<>>] }

\* _compile_binary reaches subprocess.run
CompileRunsCompiler(name, s, b) ==
    /\ s[name] # 0
    /\ ~(b[name] # 0 /\ b[name] >= s[name])

\* _get_binary reaches subprocess.run
RunsCompiler(name, s, b) ==
    /\ (b[name] # 0 => (s[name] # 0 /\ s[name] > b[name]))
    /\ CompileRunsCompiler(name, s, b)

\* _compile_binary reporting an absent compiler as a failed compile
CompileBinaryOneFailure(name, s, b, t, co) ==
    IF s[name] = 0
    THEN [ok |-> FALSE, exc |-> "FileNotFoundError",
          msg |-> <<"Swift source not found: ">> \o SourcePath(name),
          path |-> <<>>, bin |-> b]
    ELSE IF b[name] # 0 /\ b[name] >= s[name]
    THEN [ok |-> TRUE, exc |-> "", msg |-> <<>>, path |-> BinaryPath(name), bin |-> b]
    ELSE CASE co.kind = "ok" ->
                [ok |-> TRUE, exc |-> "", msg |-> <<>>, path |-> BinaryPath(name),
                 bin |-> [b EXCEPT ![name] = t]]
           [] OTHER ->
                [ok |-> FALSE, exc |-> "RuntimeError",
                 msg |-> <<"Failed to compile ", name, ".swift: ">> \o co.stderr,
                 path |-> <<>>, bin |-> b]

\* _compile_binary(name): [ok, exc, msg, path, bin], bin the cache afterwards
CompileBinary(name, s, b, t, co) ==
    IF s[name] = 0
    THEN [ok |-> FALSE, exc |-> "FileNotFoundError",
          msg |-> <<"Swift source not found: ">> \o SourcePath(name),
          path |-> <<>>, bin |-> b]
    ELSE IF b[name] # 0 /\ b[name] >= s[name]
    THEN [ok |-> TRUE, exc |-> "", msg |-> <<>>, path |-> BinaryPath(name), bin |-> b]
    ELSE CASE co.kind = "ok" ->
                [ok |-> TRUE, exc |-> "", msg |-> <<>>, path |-> BinaryPath(name),
                 bin |-> [b EXCEPT ![name] = t]]
           [] co.kind = "fail" ->
                [ok |-> FALSE, exc |-> "RuntimeError",
                 msg |-> <<"Failed to compile ", name, ".swift: ">> \o co.stderr,
                 path |-> <<>>, bin |-> b]
           [] OTHER ->
                [ok |-> FALSE, exc |-> "RuntimeError",
                 msg |-> <<"Swift compiler not found. Install Xcode command line tools: xcode-select --install">>,
                 path |-> <<>>, bin |-> b]

\* _get_binary that never rebuilds a binary it has cached
GetBinaryNeverRebuilds(name, s, b, t, co) ==
    IF b[name] # 0
    THEN [ok |-> TRUE, exc |-> "", msg |-> <<>>, path |-> BinaryPath(name), bin |-> b]
    ELSE CompileBinary(name, s, b, t, co)

\* _get_binary(name)
GetBinary(name, s, b, t, co) ==
    IF b[name] # 0
    THEN IF s[name] # 0 /\ s[name] > b[name]
         THEN CompileBinary(name, s, b, t, co)
         ELSE [ok |-> TRUE, exc |-> "", msg |-> <<>>, path |-> BinaryPath(name), bin |-> b]
    ELSE CompileBinary(name, s, b, t, co)

\* the compiler outcomes a resolver call must be given
OutcomesFor(name, s, b) ==
    IF RunsCompiler(name, s, b) THEN CompileOutcomes ELSE {[kind |-> "none", stderr |-> <<>>]}

(***************************************************************************)
(* generate, foundation.py.                                                *)
(***************************************************************************)
\* the parameters of generate
GenerateParams ==
    {"prompt", "temperature", "max_tokens", "schema", "system_prompt", "instructions",
     "sampling_mode", "top_k", "top_p", "seed", "model", "use_case", "guardrails"}

NoneSchema == [some |-> FALSE, v |-> JNull]

SomeSchema(v) == [some |-> TRUE, v |-> v]

\* system_prompt or instructions: the alias only when the option is absent
SystemPromptFirst(a) == Or(a.system_prompt, a.instructions)

\* instructions or system_prompt
FinalSystemPrompt(a) == Or(a.instructions, a.system_prompt)

\* use_case or model
FinalModel(a) == Or(a.use_case, a.model)

\* sampling_mode as the caller wrote it
CliModeAsGiven(a) == a.sampling_mode.v

\* sampling_mode.replace("_", "-")
CliMode(a) == Replace(a.sampling_mode.v, "_", "-")

\* final_model.replace("_", "-")
CliModel(a) == Replace(FinalModel(a).v, "_", "-")

\* cmd, as generate extends it
GenerateCmd(path, a) ==
    <<path, a.prompt>>
    \o (IF a.temperature.some THEN <<<<"--temperature">>, FloatText(a.temperature.v)>> ELSE <<>>)
    \o (IF a.max_tokens.some THEN <<<<"--max-tokens">>, IntText(a.max_tokens.v)>> ELSE <<>>)
    \o (IF a.schema.some THEN <<<<"--json-schema">>, JsonDumps(a.schema.v)>> ELSE <<>>)
    \o (IF Truthy(FinalSystemPrompt(a))
        THEN <<<<"--system-prompt">>, FinalSystemPrompt(a).v>> ELSE <<>>)
    \o (IF Truthy(a.sampling_mode) THEN <<<<"--sampling">>, CliMode(a)>> ELSE <<>>)
    \o (IF a.top_k.some THEN <<<<"--top-k">>, IntText(a.top_k.v)>> ELSE <<>>)
    \o (IF a.top_p.some THEN <<<<"--top-p">>, FloatText(a.top_p.v)>> ELSE <<>>)
    \o (IF a.seed.some THEN <<<<"--seed">>, IntText(a.seed.v)>> ELSE <<>>)
    \o (IF Truthy(FinalModel(a)) THEN <<<<"--model">>, CliModel(a)>> ELSE <<>>)
    \o (IF Truthy(a.guardrails) THEN <<<<"--guardrails">>, a.guardrails.v>> ELSE <<>>)

\* result.stderr or "Unknown error"
StderrOrUnknown(stderr) == IF stderr # <<>> THEN stderr ELSE <<"Unknown error">>

\* a generate that raises on structured output it cannot decode
GenerateResultStrict(a, p) ==
    IF p.rc # 0
    THEN Raise("RuntimeError", <<"Generation failed: ">> \o StderrOrUnknown(p.stderr))
    ELSE LET output == Strip(p.stdout)
         IN  IF a.schema.some
             THEN IF JsonValid(output) THEN ReturnJson(JsonLoads(output))
                  ELSE Raise("RuntimeError", <<"Failed to parse JSON output: ">> \o output)
             ELSE ReturnText(output)

\* generate, from the return of subprocess.run on
GenerateResult(a, p) ==
    IF p.rc # 0
    THEN Raise("RuntimeError", <<"Generation failed: ">> \o StderrOrUnknown(p.stderr))
    ELSE LET output == Strip(p.stdout)
         IN  IF a.schema.some
             THEN IF JsonValid(output) THEN ReturnJson(JsonLoads(output))
                  ELSE ReturnText(output)
             ELSE ReturnText(output)

\* the keywords a call of generate passes: every parameter, and tools when
\* the caller supplies a tool list
KeywordsPassed(a) == GenerateParams \cup (IF a.tools.given THEN {"tools"} ELSE {})

\* the whole call generate(**a): [call, bin, proc].  co is what the compiler
\* does if it is run, p what the helper process does if it is run.
GenerateCall(a, s, b, t, co, p) ==
    IF ~(KeywordsPassed(a) \subseteq GenerateParams)
    THEN [call |-> CallRecord("generate", a, 0, 0, <<>>,
                     Raise("TypeError",
                           <<"generate() got an unexpected keyword argument ">>
                           \o <<"'", "tools", "'">>)),
          bin |-> b, proc |-> NoProc]
    ELSE LET g == GetBinary("generate", s, b, t, co)
         IN  IF ~g.ok
             THEN [call |-> CallRecord("generate", a, 1, 0, <<>>, Raise(g.exc, g.msg)),
                   bin |-> g.bin, proc |-> NoProc]
             ELSE [call |-> CallRecord("generate", a, 1, 1, GenerateCmd(g.path, a),
                                       GenerateResult(a, p)),
                   bin |-> g.bin,
                   proc |-> [spawned |-> TRUE, rc |-> p.rc, stdout |-> p.stdout,
                             lines |-> <<>>, stderr |-> p.stderr, stderrPipe |-> TRUE]]

(***************************************************************************)
(* transcribe, transcription.py.                                           *)
(***************************************************************************)
\* the audio files on disk
InputFiles == { <<"test", ".", "mp3">> }

\* Path(input_path).exists()
InputExists(path) == path \in InputFiles

\* a command in which full_metadata adds --json alone
TranscribeCmdJsonOnly(path, a) ==
    <<path, a.input_path, <<"--locale">>, a.locale>>
    \o (IF a.stream THEN << <<"--stream">> >> ELSE <<>>)
    \o (IF a.fast THEN << <<"--fast">> >> ELSE <<>>)
    \o (IF a.redact THEN << <<"--redact">> >> ELSE <<>>)
    \o (IF a.full_metadata THEN << <<"--json">> >> ELSE <<>>)

\* cmd, as transcribe builds it
TranscribeCmd(path, a) ==
    <<path, a.input_path, <<"--locale">>, a.locale>>
    \o (IF a.stream THEN << <<"--stream">> >> ELSE <<>>)
    \o (IF a.fast THEN << <<"--fast">> >> ELSE <<>>)
    \o (IF a.redact THEN << <<"--redact">> >> ELSE <<>>)
    \o (IF a.full_metadata
        THEN << <<"--json">>, <<"--confidence">>, <<"--alternatives">> >> ELSE <<>>)

\* a transcribe that falls back to the text when the metadata does not parse
TranscribeResultLenient(a, p) ==
    IF p.rc # 0
    THEN Raise("RuntimeError", <<"Transcription failed: ">> \o StderrOrUnknown(p.stderr))
    ELSE LET output == Strip(p.stdout)
         IN  IF a.full_metadata /\ JsonValid(output) THEN ReturnJson(JsonLoads(output))
             ELSE ReturnText(output)

\* transcribe without stream, from the return of subprocess.run on
TranscribeResult(a, p) ==
    IF p.rc # 0
    THEN Raise("RuntimeError", <<"Transcription failed: ">> \o StderrOrUnknown(p.stderr))
    ELSE LET output == Strip(p.stdout)
         IN  IF a.full_metadata
             THEN IF JsonValid(output) THEN ReturnJson(JsonLoads(output))
                  ELSE Raise("RuntimeError", <<"Failed to parse JSON output: ">> \o output)
             ELSE ReturnText(output)

\* transcribe once the resolver has answered g and the input file exists
TranscribeRun(a, g, p) ==
    IF ~g.ok
    THEN [call |-> CallRecord("transcribe", a, 1, 0, <<>>, Raise(g.exc, g.msg)),
          bin |-> g.bin, proc |-> NoProc]
    ELSE [call |-> CallRecord("transcribe", a, 1, 1, TranscribeCmd(g.path, a),
                     IF a.stream THEN ReturnIterator ELSE TranscribeResult(a, p)),
          bin |-> g.bin,
          proc |-> [spawned |-> TRUE, rc |-> p.rc, stdout |-> p.stdout,
                    lines |-> p.lines, stderr |-> p.stderr, stderrPipe |-> TRUE]]

\* a transcribe that invokes the resolver before it checks the input file
TranscribeCallResolverFirst(a, s, b, t, co, p) ==
    LET g == GetBinary("transcribe", s, b, t, co)
    IN  IF g.ok /\ ~InputExists(a.input_path)
        THEN [call |-> CallRecord("transcribe", a, 1, 0, <<>>,
                         Raise("FileNotFoundError",
                               <<"Input file not found: ">> \o a.input_path)),
              bin |-> g.bin, proc |-> NoProc]
        ELSE TranscribeRun(a, g, p)

\* the whole call transcribe(**a) up to and including the start of the
\* process: [call, bin, proc]; a streaming call returns the iterator.
TranscribeCall(a, s, b, t, co, p) ==
    IF ~InputExists(a.input_path)
    THEN [call |-> CallRecord("transcribe", a, 0, 0, <<>>,
                     Raise("FileNotFoundError",
                           <<"Input file not found: ">> \o a.input_path)),
          bin |-> b, proc |-> NoProc]
    ELSE TranscribeRun(a, GetBinary("transcribe", s, b, t, co), p)

\* process.stderr.read() if process.stderr else "Unknown error"
StreamErrorMsg(p) == IF p.stderrPipe THEN p.stderr ELSE <<"Unknown error">>

\* a loop body that does not strip the line
LineItemsUnstripped(line, fullMetadata) ==
    IF fullMetadata
    THEN IF JsonValid(line) THEN <<JsonItem(JsonLoads(line))>> ELSE <<>>
    ELSE <<TextItem(line)>>

\* the body of the for loop for one line: <<>> when nothing is yielded,
\* else the one item yielded
LineItems(line, fullMetadata) ==
    LET l == Strip(line)
    IN  IF fullMetadata
        THEN IF JsonValid(l) THEN <<JsonItem(JsonLoads(l))>> ELSE <<>>
        ELSE <<TextItem(l)>>

\* the first line after pos at which the loop yields, 0 when it yields no more
RECURSIVE NextYield(_, _, _)
NextYield(lines, pos, fullMetadata) ==
    IF pos >= Len(lines) THEN 0
    ELSE IF LineItems(lines[pos + 1], fullMetadata) # <<>> THEN pos + 1
    ELSE NextYield(lines, pos + 1, fullMetadata)

\* one next() on a generator that looks at the exit status before the lines
IterResumeFailFirst(it, p, fullMetadata) ==
    IF it.state \in {"finished", "raised"}
    THEN [it EXCEPT !.last = "StopIteration"]
    ELSE IF p.rc # 0
    THEN [it EXCEPT !.state = "raised", !.waited = TRUE, !.last = "RuntimeError",
                    !.error = <<"Transcription failed: ">> \o StreamErrorMsg(p)]
    ELSE LET at == NextYield(p.lines, it.pos, fullMetadata)
         IN  IF at # 0
             THEN [it EXCEPT !.state = "suspended", !.pos = at, !.last = "item",
                             !.yielded = @ \o LineItems(p.lines[at], fullMetadata)]
             ELSE [it EXCEPT !.state = "finished", !.pos = Len(p.lines),
                             !.waited = TRUE, !.last = "StopIteration"]

\* one next() on result_iterator: the generator after it
IterResume(it, p, fullMetadata) ==
    IF it.state \in {"finished", "raised"}
    THEN [it EXCEPT !.last = "StopIteration"]
    ELSE LET at == NextYield(p.lines, it.pos, fullMetadata)
         IN  IF at # 0
             THEN [it EXCEPT !.state = "suspended", !.pos = at, !.last = "item",
                             !.yielded = @ \o LineItems(p.lines[at], fullMetadata)]
             ELSE IF p.rc # 0
             THEN [it EXCEPT !.state = "raised", !.pos = Len(p.lines), !.waited = TRUE,
                             !.last = "RuntimeError",
                             !.error = <<"Transcription failed: ">> \o StreamErrorMsg(p)]
             ELSE [it EXCEPT !.state = "finished", !.pos = Len(p.lines),
                             !.waited = TRUE, !.last = "StopIteration"]

(***************************************************************************)
(* _convert_tools_to_schema.  A tool is [name, parameters]; a tool list is *)
(* [given, v], given false for None.                                       *)
(***************************************************************************)
\* the value of key in the object obj
Get(obj, key) ==
    obj.items[CHOOSE i \in 1..Len(obj.items) : obj.items[i].key = key].val

Keys(obj) == {obj.items[i].key : i \in 1..Len(obj.items)}

\* the variant of one tool: function is the constant name, arguments the
\* tool's parameter schema
ToolVariant(tool) ==
    JObj(<< Member(<<"type">>, JStr(<<"object">>)),
            Member(<<"properties">>,
                   JObj(<< Member(<<"function">>,
                                  JObj(<<Member(<<"const">>, JStr(tool.name))>>)),
                           Member(<<"arguments">>, tool.parameters) >>)),
            Member(<<"required">>, JArr(<<JStr(<<"function">>), JStr(<<"arguments">>)>>)) >>)

\* the tools with every later tool of an earlier name removed
RECURSIVE DedupByName(_)
DedupByName(ts) ==
    IF ts = <<>> THEN <<>>
    ELSE LET init == DedupByName(SubSeq(ts, 1, Len(ts) - 1))
             last == ts[Len(ts)]
         IN  IF \E i \in 1..Len(init) : init[i].name = last.name THEN init
             ELSE Append(init, last)

\* a converter that keeps one variant per tool name
ConvertToolsDedup(tl) ==
    IF ~tl.given \/ tl.v = <<>> THEN JObj(<<>>)
    ELSE LET ts == DedupByName(tl.v)
         IN  JObj(<<Member(<<"anyOf">>, JArr([i \in 1..Len(ts) |-> ToolVariant(ts[i])]))>>)

\* _convert_tools_to_schema(tools)
ConvertToolsToSchema(tl) ==
    IF ~tl.given \/ tl.v = <<>> THEN JObj(<<>>)
    ELSE JObj(<<Member(<<"anyOf">>,
                       JArr([i \in 1..Len(tl.v) |-> ToolVariant(tl.v[i])]))>>)

(***************************************************************************)
(* The inputs of the model.                                                *)
(***************************************************************************)
\* what a helper process prints before it exits 0
StdoutTexts ==
    { <<>>,
      <<"a">>,
      <<" ", "a", "\n">>,
      <<"a", " ", "a">>,
      <<"1", "0", "\n">>,
      <<"{", " ", "}">>,
      <<"{", "\n">>,
      <<"0", "1">>,
      <<"\f", "1">> }

StderrTexts == { <<>>, <<"boom">> }

\* what a helper process run to completion does: exit status and captured output
RunOutcomes ==
    { [rc |-> 0, stdout |-> o, lines |-> <<>>, stderr |-> <<>>] : o \in StdoutTexts }
    \cup { [rc |-> 1, stdout |-> <<>>, lines |-> <<>>, stderr |-> e] : e \in StderrTexts }

NoOutcome == [rc |-> 0, stdout |-> <<>>, lines |-> <<>>, stderr |-> <<>>]

\* the lines a streaming helper process prints
LineTexts ==
    { <<"partial", "\n">>,
      <<" ", "final", " ", "\n">>,
      <<"1", "\n">>,
      <<"{", "}", "\n">>,
      <<"\f", "1", "\n">>,
      <<"{", "\n">> }

LineSeqs == UNION { [1..n -> LineTexts] : n \in 0..MaxLines }

\* what a streaming helper process does: its lines, then its exit
StreamOutcomes ==
    { [rc |-> 0, stdout |-> <<>>, lines |-> ls, stderr |-> <<>>] : ls \in LineSeqs }
    \cup { [rc |-> 1, stdout |-> <<>>, lines |-> ls, stderr |-> e] :
           ls \in LineSeqs, e \in StderrTexts }

ObjectSchema == JObj(<<Member(<<"type">>, JStr(<<"object">>))>>)

LocationSchema ==
    JObj(<< Member(<<"type">>, JStr(<<"object">>)),
            Member(<<"required">>, JArr(<<JStr(<<"location">>)>>)) >>)

\* tool definitions: [name, parameters]; two of them share a name
ToolDefs ==
    { [name |-> <<"get", "_", "weather">>, parameters |-> LocationSchema],
      [name |-> <<"get", "_", "weather">>, parameters |-> ObjectSchema],
      [name |-> <<"func", "_", "a">>, parameters |-> JObj(<<>>)],
      [name |-> <<"func", "_", "b">>, parameters |-> JObj(<<>>)] }

NoTools == [given |-> FALSE, v |-> <<>>]

SomeTools(ts) == [given |-> TRUE, v |-> ts]

\* the tool lists handed to the converter: None, and the lists of up to
\* MaxTools tools
ToolLists ==
    {NoTools} \cup {SomeTools(ts) : ts \in UNION { [1..n -> ToolDefs] : n \in 0..MaxTools }}

\* temperature, max_tokens, top_k, top_p and seed, together
NumericOptions ==
    { [temperature |-> NoneInt, max_tokens |-> NoneInt, top_k |-> NoneInt,
       top_p |-> NoneInt, seed |-> NoneInt],
      [temperature |-> SomeInt(7), max_tokens |-> SomeInt(10), top_k |-> SomeInt(40),
       top_p |-> SomeInt(9), seed |-> SomeInt(42)],
      [temperature |-> SomeInt(10), max_tokens |-> NoneInt, top_k |-> NoneInt,
       top_p |-> NoneInt, seed |-> SomeInt(-1)] }

GenerateArgs ==
    { [prompt |-> <<"hi">>,
       temperature |-> n.temperature, max_tokens |-> n.max_tokens,
       schema |-> sc, system_prompt |-> sp, instructions |-> ins,
       sampling_mode |-> sm, top_k |-> n.top_k, top_p |-> n.top_p, seed |-> n.seed,
       model |-> mo, use_case |-> uc, guardrails |-> gr, tools |-> tl] :
      n \in NumericOptions,
      sc \in {NoneSchema, SomeSchema(ObjectSchema)},
      sp \in {NoneText, SomeText(<<>>), SomeText(<<"A">>)},
      ins \in {NoneText, SomeText(<<>>), SomeText(<<"be", "_", "brief">>)},
      sm \in {NoneText, SomeText(<<"top", "_", "k">>)},
      mo \in {NoneText, SomeText(<<>>), SomeText(<<"default">>)},
      uc \in {NoneText, SomeText(<<>>), SomeText(<<"content", "_", "tagging">>)},
      gr \in {NoneText, SomeText(<<"strict", "_", "mode">>)},
      tl \in {NoTools,
              SomeTools(<<[name |-> <<"test", "_", "func">>, parameters |-> ObjectSchema]>>)} }

TranscribeArgs ==
    { [input_path |-> ip, locale |-> lo, stream |-> st, fast |-> fa, redact |-> re,
       full_metadata |-> fm] :
      ip \in InputFiles \cup { <<"nonexistent", ".", "mp3">> },
      lo \in { <<"en", "-", "US">>, <<"es", "-", "ES">> },
      st \in BOOLEAN, fa \in BOOLEAN, re \in BOOLEAN, fm \in BOOLEAN }

(***************************************************************************)
(* The state machine.  pc is "idle" between calls, "done" when a call has  *)
(* returned or raised, "streaming" while its caller holds the iterator of  *)
(* a streaming call; call, proc and iter record the call in hand.          *)
(***************************************************************************)
Init ==
    /\ src = [n \in Names |-> 1]
    /\ bin = [n \in Names |-> 0]
    /\ partial = {}
    /\ now = 1
    /\ pc = "idle"
    /\ call = NoCall
    /\ proc = NoProc
    /\ iter = NoIter

\* a call of generate, to its return or raise
Generate ==
    /\ pc = "idle"
    /\ \E a \in GenerateArgs, co \in OutcomesFor("generate", src, bin) :
         \E p \in (IF GenerateCall(a, src, bin, now, co, NoOutcome).call.spawned = 1
                   THEN RunOutcomes ELSE {NoOutcome}) :
            LET r == GenerateCall(a, src, bin, now, co, p)
            IN  /\ call' = r.call
                /\ bin' = r.bin
                /\ proc' = r.proc
    /\ pc' = "done"
    /\ UNCHANGED <<src, partial, now, iter>>

\* a call of transcribe without stream, to its return or raise
Transcribe ==
    /\ pc = "idle"
    /\ \E a \in {x \in TranscribeArgs : ~x.stream},
          co \in OutcomesFor("transcribe", src, bin) :
         \E p \in (IF TranscribeCall(a, src, bin, now, co, NoOutcome).call.spawned = 1
                   THEN RunOutcomes ELSE {NoOutcome}) :
            LET r == TranscribeCall(a, src, bin, now, co, p)
            IN  /\ call' = r.call
                /\ bin' = r.bin
                /\ proc' = r.proc
    /\ pc' = "done"
    /\ UNCHANGED <<src, partial, now, iter>>

\* a call of transcribe with stream, to its raise or its return of the
\* iterator; the child it started runs on
TranscribeStream ==
    /\ pc = "idle"
    /\ \E a \in {x \in TranscribeArgs : x.stream},
          co \in OutcomesFor("transcribe", src, bin) :
         \E p \in (IF TranscribeCall(a, src, bin, now, co, NoOutcome).call.spawned = 1
                   THEN StreamOutcomes ELSE {NoOutcome}) :
            LET r == TranscribeCall(a, src, bin, now, co, p)
            IN  /\ call' = r.call
                /\ bin' = r.bin
                /\ proc' = r.proc
                /\ pc' = IF r.call.result.kind = "iterator" THEN "streaming" ELSE "done"
                /\ iter' = IF r.call.result.kind = "iterator"
                           THEN [NoIter EXCEPT !.state = "created"] ELSE NoIter
    /\ UNCHANGED <<src, partial, now>>

\* the consumer pulls the next item from the iterator
IterNext ==
    /\ pc = "streaming"
    /\ iter' = IterResume(iter, proc, call.args.full_metadata)
    /\ UNCHANGED <<src, partial, bin, now, pc, call, proc>>

\* the caller is done with the outcome of the call, or drops the iterator
Continue ==
    /\ pc \in {"done", "streaming"}
    /\ pc' = "idle"
    /\ call' = NoCall
    /\ proc' = NoProc
    /\ iter' = NoIter
    /\ UNCHANGED <<src, partial, bin, now>>

Next == Generate \/ Transcribe \/ TranscribeStream \/ IterNext \/ Continue

Spec == Init /\ [][Next]_vars

(***************************************************************************)
(* The converter by itself: a tool list is handed to it, and it returns.   *)
(***************************************************************************)
InitTools ==
    /\ src = [n \in Names |-> 1]
    /\ bin = [n \in Names |-> 0]
    /\ partial = {}
    /\ now = 1
    /\ pc = "called"
    /\ \E tl \in ToolLists :
          call = CallRecord("_convert_tools_to_schema", tl, 0, 0, <<>>, NoResult)
    /\ proc = NoProc
    /\ iter = NoIter

\* _convert_tools_to_schema returns
ConvertTools ==
    /\ pc = "called"
    /\ call.op = "_convert_tools_to_schema"
    /\ call' = [call EXCEPT !.result = ReturnJson(ConvertToolsToSchema(call.args))]
    /\ pc' = "done"
    /\ UNCHANGED <<src, partial, bin, now, proc, iter>>

NextTools == ConvertTools

SpecTools == InitTools /\ [][NextTools]_vars

(***************************************************************************)
(* The resolver by itself: one caller at a time calls _get_binary, and     *)
(* between calls the sources are written, replaced or removed and time     *)
(* passes.  A modification time is whatever the writer of the file stamped *)
(* on it; a compile stamps now.                                             *)
(***************************************************************************)
\* the command _compile_binary runs
CompileCmd(name) == << <<"swiftc">>, SourcePath(name), <<"-o">>, BinaryPath(name) >>

\* a call of _get_binary(name), to its return or raise: [call, bin, proc],
\* the call holding the modification times it found, proc the compiler it ran
ResolveCall(name, s, b, t, co) ==
    LET g == GetBinary(name, s, b, t, co)
        ran == RunsCompiler(name, s, b)
    IN  [call |-> CallRecord("_get_binary",
                             [name |-> name, src |-> s[name], bin |-> b[name]],
                             1, IF ran THEN 1 ELSE 0,
                             IF ran THEN CompileCmd(name) ELSE <<>>,
                             IF g.ok THEN ReturnText(g.path) ELSE Raise(g.exc, g.msg)),
         bin |-> g.bin,
         proc |-> IF ran /\ co.kind # "missing"
                  THEN [NoProc EXCEPT !.spawned = TRUE,
                                      !.rc = IF co.kind = "ok" THEN 0 ELSE 1,
                                      !.stderr = co.stderr]
                  ELSE NoProc]

\* a call of _get_binary, to its return or raise
Resolve ==
    /\ pc = "idle"
    /\ \E name \in Names : \E co \in OutcomesFor(name, src, bin) :
          LET r == ResolveCall(name, src, bin, now, co)
          IN  /\ call' = r.call
              /\ bin' = r.bin
              /\ proc' = r.proc
    /\ pc' = "done"
    /\ UNCHANGED <<src, partial, now, iter>>

\* a source file is written or replaced
TouchSource ==
    /\ pc = "idle"
    /\ \E name \in Names, t \in 1..MaxTime : src' = [src EXCEPT ![name] = t]
    /\ UNCHANGED <<bin, partial, now, pc, call, proc, iter>>

\* a source file is removed
RemoveSource ==
    /\ pc = "idle"
    /\ \E name \in Names : src[name] # 0 /\ src' = [src EXCEPT ![name] = 0]
    /\ UNCHANGED <<bin, partial, now, pc, call, proc, iter>>

\* time passes
Tick ==
    /\ pc = "idle"
    /\ now < MaxTime
    /\ now' = now + 1
    /\ UNCHANGED <<src, partial, bin, pc, call, proc, iter>>

NextCache == Resolve \/ TouchSource \/ RemoveSource \/ Tick \/ Continue

SpecCache == Init /\ [][NextCache]_vars

(***************************************************************************)
(* The streaming call step by step: Popen gave the child two pipes, stdout *)
(* and stderr, each holding PipeCapacity units; the child writes what its  *)
(* script says, a write to a full pipe waiting for room, and then exits;   *)
(* the consumer keeps calling next() on result_iterator, which reads       *)
(* process.stdout line by line, waiting for a line or for end of file,     *)
(* then waits for the exit, and reads process.stderr only after it.        *)
(***************************************************************************)
\* what a child writes, in order: lines to stdout, chunks to stderr
Scripts == UNION { [1..n -> {"out", "err"}] : n \in 0..MaxWrites }

\* the child Popen started, nothing written yet
ChildProcess(script, rc) ==
    [spawned |-> TRUE, rc |-> rc, script |-> script, at |-> 1, exited |-> FALSE,
     outBuf |-> 0, errBuf |-> 0]

\* a streaming transcribe that has returned its iterator
StreamingCall ==
    LET a == [input_path |-> <<"test", ".", "mp3">>, locale |-> <<"en", "-", "US">>,
              stream |-> TRUE, fast |-> FALSE, redact |-> FALSE, full_metadata |-> FALSE]
    IN  CallRecord("transcribe", a, 1, 1, TranscribeCmd(BinaryPath("transcribe"), a),
                   ReturnIterator)

InitPipes ==
    /\ src = [n \in Names |-> 1]
    /\ bin = [n \in Names |-> 1]
    /\ partial = {}
    /\ now = 1
    /\ pc = "streaming"
    /\ call = StreamingCall
    /\ \E script \in Scripts, rc \in {0, 1} : proc = ChildProcess(script, rc)
    /\ iter = [NoIter EXCEPT !.state = "created"]

\* the child's next write, "exit" after the last
ChildAt(p) == IF p.at <= Len(p.script) THEN p.script[p.at] ELSE "exit"

\* the child writes a line to stdout
ChildWriteStdout ==
    /\ ~proc.exited
    /\ ChildAt(proc) = "out"
    /\ proc.outBuf < PipeCapacity
    /\ proc' = [proc EXCEPT !.outBuf = @ + 1, !.at = @ + 1]
    /\ UNCHANGED <<src, bin, partial, now, pc, call, iter>>

\* the child writes a chunk to stderr
ChildWriteStderr ==
    /\ ~proc.exited
    /\ ChildAt(proc) = "err"
    /\ proc.errBuf < PipeCapacity
    /\ proc' = [proc EXCEPT !.errBuf = @ + 1, !.at = @ + 1]
    /\ UNCHANGED <<src, bin, partial, now, pc, call, iter>>

\* the child exits, which closes its ends of the pipes
ChildExit ==
    /\ ~proc.exited
    /\ ChildAt(proc) = "exit"
    /\ proc' = [proc EXCEPT !.exited = TRUE]
    /\ UNCHANGED <<src, bin, partial, now, pc, call, iter>>

\* result_iterator is in its for loop over process.stdout
Reading == iter.state \in {"created", "suspended"}

\* the for loop reads a line and yields it
ConsumerReadLine ==
    /\ Reading
    /\ proc.outBuf > 0
    /\ proc' = [proc EXCEPT !.outBuf = @ - 1]
    /\ iter' = [iter EXCEPT !.state = "suspended", !.pos = @ + 1, !.last = "item"]
    /\ UNCHANGED <<src, bin, partial, now, pc, call>>

\* the for loop reads end of file and process.wait() is called
ConsumerEndOfOutput ==
    /\ Reading
    /\ proc.outBuf = 0
    /\ proc.exited
    /\ iter' = [iter EXCEPT !.state = "waiting", !.waited = TRUE]
    /\ UNCHANGED <<src, bin, partial, now, pc, call, proc>>

\* process.wait() returns: the sequence ends, or stderr is read and the
\* failure raised
ConsumerWaitReturns ==
    /\ iter.state = "waiting"
    /\ proc.exited
    /\ IF proc.rc # 0
       THEN /\ iter' = [iter EXCEPT !.state = "raised", !.last = "RuntimeError",
                                    !.error = <<"Transcription failed: ">>]
            /\ proc' = [proc EXCEPT !.errBuf = 0]
       ELSE /\ iter' = [iter EXCEPT !.state = "finished", !.last = "StopIteration"]
            /\ proc' = proc
    /\ UNCHANGED <<src, bin, partial, now, pc, call>>

ChildStep == ChildWriteStdout \/ ChildWriteStderr \/ ChildExit

ConsumerStep == ConsumerReadLine \/ ConsumerEndOfOutput \/ ConsumerWaitReturns

NextPipes == ChildStep \/ ConsumerStep

\* the child is scheduled, and the consumer keeps pulling
SpecPipes ==
    InitPipes /\ [][NextPipes]_vars /\ WF_vars(ChildStep) /\ WF_vars(ConsumerStep)

(***************************************************************************)
(* The resolver step by step, with several callers (threads or processes)  *)
(* in _get_binary at once.  Each test of the file system is a step of its  *)
(* own, and so are the start of swiftc, the moment it opens its output     *)
(* file at binary_path, and its exit.  The compiler is given binary_path   *)
(* itself as its output: whether it writes there in place or moves a       *)
(* finished file there, and whether a compile that dies leaves what it had *)
(* written, is the compiler's choice, so every one of these can happen.    *)
(* partial holds the names whose file at binary_path is not a complete     *)
(* binary.                                                                 *)
(***************************************************************************)
Callers == 1..NumCallers

\* a caller outside _get_binary
IdleCaller == [at |-> "idle", name |-> "", result |-> NoResult, complete |-> FALSE]

InitRace ==
    /\ src = [n \in Names |-> 1]
    /\ bin = [n \in Names |-> 0]
    /\ partial = {}
    /\ now = 1
    /\ pc = "idle"
    /\ call = [c \in Callers |-> IdleCaller]
    /\ proc = NoProc
    /\ iter = NoIter

\* a complete binary is at binary_path, in the file system (b, part)
CompleteAt(name, b, part) == b[name] # 0 /\ name \notin part

\* the caller returns binary_path, complete or not as the file then is
Returns(c, b, part) ==
    [call EXCEPT ![c].at = "done",
                 ![c].result = ReturnText(BinaryPath(call[c].name)),
                 ![c].complete = CompleteAt(call[c].name, b, part)]

\* the caller raises what _compile_binary raises given the compiler outcome co
Raises(c, co) ==
    LET r == CompileBinary(call[c].name, src, bin, now, co)
    IN  [call EXCEPT ![c].at = "done", ![c].result = Raise(r.exc, r.msg)]

\* a caller calls _get_binary(name)
CallGetBinary(c) ==
    /\ call[c].at = "idle"
    /\ \E name \in Names : call' = [call EXCEPT ![c].at = "get", ![c].name = name]
    /\ UNCHANGED <<src, bin, partial, now, pc, proc, iter>>

\* _get_binary tests the cache: it returns the cached path, or goes on to
\* _compile_binary
CheckCache(c) ==
    /\ call[c].at = "get"
    /\ LET name == call[c].name
       IN  IF bin[name] # 0 /\ ~(src[name] # 0 /\ src[name] > bin[name])
           THEN call' = Returns(c, bin, partial)
           ELSE call' = [call EXCEPT ![c].at = "compile"]
    /\ UNCHANGED <<src, bin, partial, now, pc, proc, iter>>

\* _compile_binary tests the source and the cache: it raises, returns the
\* cached path, or starts swiftc
CheckSource(c) ==
    /\ call[c].at = "compile"
    /\ LET name == call[c].name
       IN  IF CompileRunsCompiler(name, src, bin)
           THEN call' = [call EXCEPT ![c].at = "swiftc"]
           ELSE IF src[name] = 0
           THEN call' = Raises(c, [kind |-> "none", stderr |-> <<>>])
           ELSE call' = Returns(c, bin, partial)
    /\ UNCHANGED <<src, bin, partial, now, pc, proc, iter>>

\* there is no swiftc to run
SwiftcMissing(c) ==
    /\ call[c].at = "swiftc"
    /\ call' = Raises(c, [kind |-> "missing", stderr |-> <<>>])
    /\ UNCHANGED <<src, bin, partial, now, pc, proc, iter>>

\* swiftc exits non-zero before it has written any output
SwiftcRejects(c) ==
    /\ call[c].at = "swiftc"
    /\ \E co \in {o \in CompileOutcomes : o.kind = "fail"} : call' = Raises(c, co)
    /\ UNCHANGED <<src, bin, partial, now, pc, proc, iter>>

\* swiftc opens its output file at binary_path and starts to write it
SwiftcOpensOutput(c) ==
    /\ call[c].at = "swiftc"
    /\ call' = [call EXCEPT ![c].at = "writing"]
    /\ bin' = [bin EXCEPT ![call[c].name] = now]
    /\ partial' = partial \cup {call[c].name}
    /\ UNCHANGED <<src, now, pc, proc, iter>>

\* another caller's swiftc is writing the same file
OthersWriting(c) ==
    \E d \in Callers \ {c} : call[d].at = "writing" /\ call[d].name = call[c].name

\* swiftc exits 0 with its output written, in place or moved into place,
\* and _compile_binary returns binary_path
SwiftcSucceeds(c) ==
    /\ call[c].at \in {"swiftc", "writing"}
    /\ bin' = [bin EXCEPT ![call[c].name] = now]
    /\ partial' = IF OthersWriting(c) THEN partial ELSE partial \ {call[c].name}
    /\ call' = Returns(c, bin', partial')
    /\ UNCHANGED <<src, now, pc, proc, iter>>

\* swiftc dies with its output part written, and the file stays
SwiftcDiesWriting(c) ==
    /\ call[c].at = "writing"
    /\ \E co \in {o \in CompileOutcomes : o.kind = "fail"} : call' = Raises(c, co)
    /\ UNCHANGED <<src, bin, partial, now, pc, proc, iter>>

\* the caller goes on with what it was handed
CallerContinues(c) ==
    /\ call[c].at = "done"
    /\ call' = [call EXCEPT ![c] = IdleCaller]
    /\ UNCHANGED <<src, bin, partial, now, pc, proc, iter>>

NextRace ==
    \/ \E c \in Callers :
          \/ CallGetBinary(c)
          \/ CheckCache(c)
          \/ CheckSource(c)
          \/ SwiftcMissing(c)
          \/ SwiftcRejects(c)
          \/ SwiftcOpensOutput(c)
          \/ SwiftcSucceeds(c)
          \/ SwiftcDiesWriting(c)
          \/ CallerContinues(c)
    \/ TouchSource
    \/ Tick

SpecRace == InitRace /\ [][NextRace]_vars

(***************************************************************************)
(* The claims.                                                             *)
(***************************************************************************)
\* a generate or non-streaming transcribe whose process has been run
RanToCompletion ==
    /\ pc = "done"
    /\ call.op \in {"generate", "transcribe"}
    /\ call.spawned = 1

\* msg names the captured standard error, or the fallback when there is none
NamesStderr(msg, stderr) ==
    IF stderr # <<>> THEN Contains(msg, stderr) ELSE Contains(msg, <<"Unknown error">>)

\* C1: on every path that runs a helper binary (generate, transcribe,
\* streaming transcribe) a non-zero exit status raises a failure whose
\* message contains the captured standard error, or "Unknown error" when
\* the captured standard error is empty.
C1_NonZeroExitNamesStderr ==
    /\ (RanToCompletion /\ proc.rc # 0) =>
          /\ call.result.kind = "raise"
          /\ call.result.exc = "RuntimeError"
          /\ NamesStderr(call.result.text, proc.stderr)
    /\ (pc = "streaming" /\ iter.waited /\ proc.rc # 0) =>
          /\ iter.state = "raised"
          /\ NamesStderr(iter.error, proc.stderr)

\* C2: a transcribe (streaming or not, any flags) whose input path does not
\* exist raises the missing-file error, and in that call the resolver is
\* never invoked and no process is spawned.
C2_MissingInputBeforeResolver ==
    (call.op = "transcribe" /\ ~InputExists(call.args.input_path)) =>
        /\ pc = "done"
        /\ call.result.kind = "raise"
        /\ call.result.exc = "FileNotFoundError"
        /\ call.resolver = 0
        /\ call.spawned = 0
        /\ ~proc.spawned
        /\ iter.state = "none"

\* a streaming, full-metadata transcribe of a missing file has raised while
\* the binary it would need is not even compiled
C2_Witness ==
    /\ call.op = "transcribe"
    /\ ~InputExists(call.args.input_path)
    /\ call.args.stream
    /\ call.args.full_metadata
    /\ call.result.exc = "FileNotFoundError"
    /\ bin["transcribe"] = 0

\* one text item per line, f(line)
TextItemsOf(ls, f(_)) == [i \in 1..Len(ls) |-> TextItem(f(ls[i]))]

\* the parsed records of the lines whose f(line) is valid JSON
JsonItemsOf(ls, f(_)) ==
    LET valid == SelectSeq(ls, LAMBDA l : JsonValid(f(l)))
    IN  [i \in 1..Len(valid) |-> JsonItem(JsonLoads(f(valid[i])))]

\* the lines the generator has read
LinesRead == SubSeq(proc.lines, 1, iter.pos)

\* the generator has run to its end
StreamEnded == pc = "streaming" /\ iter.state \in {"finished", "raised"}

\* C3 as stated: the stream yields, with full_metadata=False, one item per
\* line equal to that line (its terminator aside), in order, and with
\* full_metadata=True the parsed records of the lines that are valid JSON,
\* in order, the other lines being dropped.
C3_StreamYieldsLinesVerbatim ==
    StreamEnded =>
        /\ iter.pos = Len(proc.lines)
        /\ iter.yielded =
              IF call.args.full_metadata
              THEN JsonItemsOf(proc.lines, LAMBDA l : l)
              ELSE TextItemsOf(proc.lines, Chomp)

\* C3, amended: the stream yields, with full_metadata=False, one item per
\* line, the line stripped of leading and trailing whitespace, in order; with
\* full_metadata=True the parsed records of the lines that are valid JSON
\* once stripped, in order.  A line that does not parse is dropped and the
\* stream goes on to the last line.
C3_StreamYieldsStrippedLines ==
    /\ pc = "streaming" =>
          iter.yielded =
              IF call.args.full_metadata
              THEN JsonItemsOf(LinesRead, Strip)
              ELSE TextItemsOf(LinesRead, Strip)
    /\ StreamEnded => iter.pos = Len(proc.lines)
    /\ (pc = "streaming" /\ iter.error # <<>>) => iter.pos = Len(proc.lines)

\* a full-metadata stream has ended normally after a line that does not
\* parse was dropped and the line after it was yielded
C3_Witness ==
    /\ StreamEnded
    /\ iter.state = "finished"
    /\ call.args.full_metadata
    /\ proc.lines = << <<"{", "\n">>, <<"{", "}", "\n">> >>
    /\ iter.yielded = << JsonItem(JObj(<<>>)) >>

\* a generate with structured output requested whose process exited 0
StructuredGenerateExited ==
    /\ RanToCompletion
    /\ call.op = "generate"
    /\ call.args.schema.some
    /\ proc.rc = 0

\* C4 as stated: generate with structured output requested and exit 0
\* returns the raw standard output unmodified when it is not valid JSON, and
\* the decoded value when it is.
C4_MalformedJsonReturnsRawStdout ==
    StructuredGenerateExited =>
        /\ call.result.kind = "return"
        /\ IF JsonValid(proc.stdout)
           THEN call.result.isJson /\ call.result.json = JsonLoads(proc.stdout)
           ELSE ~call.result.isJson /\ call.result.text = proc.stdout

\* C4, amended: generate with structured output requested and exit 0 raises
\* no error; it returns the standard output stripped of leading and trailing
\* whitespace when that stripped text is not valid JSON, and the value
\* decoded from it when it is.
C4_MalformedJsonReturnsStrippedStdout ==
    StructuredGenerateExited =>
        /\ call.result.kind = "return"
        /\ IF JsonValid(Strip(proc.stdout))
           THEN call.result.isJson /\ call.result.json = JsonLoads(Strip(proc.stdout))
           ELSE ~call.result.isJson /\ call.result.text = Strip(proc.stdout)

\* generate with a schema has returned the text "{" for the output "{\n"
C4_Witness ==
    /\ StructuredGenerateExited
    /\ proc.stdout = <<"{", "\n">>
    /\ call.result.kind = "return"
    /\ call.result.text = <<"{">>

\* a non-streaming transcribe whose process exited 0
TranscribeExited ==
    /\ RanToCompletion
    /\ call.op = "transcribe"
    /\ proc.rc = 0

\* C5 as stated: a non-streaming transcribe with full_metadata=True and
\* exit 0 raises when the standard output is not a valid JSON document; with
\* full_metadata=False the output is returned as text and never parsed.
C5_MalformedMetadataRaises ==
    TranscribeExited =>
        IF call.args.full_metadata
        THEN ~JsonValid(proc.stdout) => call.result.kind = "raise"
        ELSE call.result.kind = "return" /\ ~call.result.isJson

\* C5, amended: a non-streaming transcribe with full_metadata=True and exit 0
\* raises when the standard output, stripped of leading and trailing
\* whitespace, is not a valid JSON document, and returns the decoded
\* document otherwise; with full_metadata=False the stripped output is
\* returned as text and never parsed.
C5_MalformedStrippedMetadataRaises ==
    TranscribeExited =>
        IF call.args.full_metadata
        THEN IF JsonValid(Strip(proc.stdout))
             THEN /\ call.result.kind = "return"
                  /\ call.result.isJson
                  /\ call.result.json = JsonLoads(Strip(proc.stdout))
             ELSE /\ call.result.kind = "raise"
                  /\ call.result.exc = "RuntimeError"
        ELSE /\ call.result.kind = "return"
             /\ ~call.result.isJson
             /\ call.result.text = Strip(proc.stdout)

\* a full-metadata transcribe has raised on the output "01"
C5_Witness ==
    /\ TranscribeExited
    /\ call.args.full_metadata
    /\ proc.stdout = <<"0", "1">>
    /\ call.result.kind = "raise"

\* the converter has returned
Converted == pc = "done" /\ call.op = "_convert_tools_to_schema"

\* C6: the converter returns an empty mapping for an empty or absent tool
\* list; for a list of n >= 1 tools it returns a schema whose only key anyOf
\* holds n variants in input order, variant i constraining function to the
\* constant name of tool i and carrying tool i's parameter schema as
\* arguments, duplicate names included.
C6_ConverterOneVariantPerTool ==
    Converted =>
        LET tl == call.args
            schema == call.result.json
        IN  /\ call.result.kind = "return"
            /\ schema.k = "obj"
            /\ IF ~tl.given \/ tl.v = <<>>
               THEN schema.items = <<>>
               ELSE /\ Len(schema.items) = 1
                    /\ Keys(schema) = { <<"anyOf">> }
                    /\ Get(schema, <<"anyOf">>).k = "arr"
                    /\ Len(Get(schema, <<"anyOf">>).items) = Len(tl.v)
                    /\ \A i \in 1..Len(tl.v) :
                         LET props == Get(Get(schema, <<"anyOf">>).items[i].val,
                                          <<"properties">>)
                         IN  /\ Get(props, <<"function">>) =
                                    JObj(<<Member(<<"const">>, JStr(tl.v[i].name))>>)
                             /\ Get(props, <<"arguments">>) = tl.v[i].parameters

\* the converter has returned two variants for two tools of one name
C6_Witness ==
    /\ Converted
    /\ Len(call.args.v) = 2
    /\ call.args.v[1].name = call.args.v[2].name
    /\ call.args.v[1] # call.args.v[2]
    /\ Len(Get(call.result.json, <<"anyOf">>).items) = 2

\* the values that follow the flag in the options of cmd
FlagValues(cmd, flag) == {cmd[i + 1] : i \in {j \in 3..(Len(cmd) - 1) : cmd[j] = flag}}

\* the flag is among the options of cmd
HasFlag(cmd, flag) == \E i \in 3..Len(cmd) : cmd[i] = flag

\* C7: a generate called with a non-empty tool list puts --json-schema and
\* the JSON encoding of the schema converted from the tools in its command,
\* also when a schema argument is supplied as well.
C7_ToolsDriveJsonSchema ==
    (/\ pc = "done"
     /\ call.op = "generate"
     /\ call.args.tools.given
     /\ call.args.tools.v # <<>>
     /\ ~(call.resolver = 1 /\ call.spawned = 0)) =>
        /\ call.spawned = 1
        /\ FlagValues(call.cmd, <<"--json-schema">>)
             = { JsonDumps(ConvertToolsToSchema(call.args.tools)) }

\* a generate that has run its process
GenerateRan == pc = "done" /\ call.op = "generate" /\ call.spawned = 1

\* C8 as stated: when system_prompt and instructions are both given (any
\* strings, not None) the command carries --system-prompt with the
\* instructions value, and when model and use_case are both given the
\* --model value is derived from use_case, never from model.  (Read
\* generously: a command that carries the flag carries it with the alias.)
C8_AliasWinsWheneverGiven ==
    GenerateRan =>
        LET a == call.args
        IN  /\ (a.system_prompt.some /\ a.instructions.some) =>
                  FlagValues(call.cmd, <<"--system-prompt">>) \subseteq {a.instructions.v}
            /\ (a.model.some /\ a.use_case.some) =>
                  FlagValues(call.cmd, <<"--model">>)
                      \subseteq {Replace(a.use_case.v, "_", "-")}

\* C8, amended: when system_prompt and instructions are both given and
\* instructions is not the empty string, the command carries --system-prompt
\* with the instructions value; when model and use_case are both given and
\* use_case is not the empty string, the --model value is derived from
\* use_case.  An empty instructions or use_case gives way to a non-empty
\* system_prompt or model.
C8_NonEmptyAliasWins ==
    GenerateRan =>
        LET a == call.args
        IN  /\ (a.system_prompt.some /\ a.instructions.some /\ a.instructions.v # <<>>) =>
                  FlagValues(call.cmd, <<"--system-prompt">>) = {a.instructions.v}
            /\ (a.model.some /\ a.use_case.some /\ a.use_case.v # <<>>) =>
                  FlagValues(call.cmd, <<"--model">>) = {Replace(a.use_case.v, "_", "-")}
            /\ (a.system_prompt.some /\ a.system_prompt.v # <<>>
                  /\ a.instructions.some /\ a.instructions.v = <<>>) =>
                  FlagValues(call.cmd, <<"--system-prompt">>) = {a.system_prompt.v}
            /\ (a.model.some /\ a.model.v # <<>> /\ a.use_case.some /\ a.use_case.v = <<>>) =>
                  FlagValues(call.cmd, <<"--model">>) = {Replace(a.model.v, "_", "-")}

\* a generate given system_prompt "A", instructions, model "default" and
\* use_case "content_tagging" has run with the instructions and content-tagging
C8_Witness ==
    /\ GenerateRan
    /\ call.args.system_prompt = SomeText(<<"A">>)
    /\ call.args.instructions = SomeText(<<"be", "_", "brief">>)
    /\ call.args.model = SomeText(<<"default">>)
    /\ call.args.use_case = SomeText(<<"content", "_", "tagging">>)
    /\ FlagValues(call.cmd, <<"--system-prompt">>) = { <<"be", "_", "brief">> }
    /\ FlagValues(call.cmd, <<"--model">>) = { <<"content", "-", "tagging">> }

\* the flags of generate that take a value
ValueFlags ==
    { <<"--temperature">>, <<"--max-tokens">>, <<"--json-schema">>, <<"--system-prompt">>,
      <<"--sampling">>, <<"--top-k">>, <<"--top-p">>, <<"--seed">>, <<"--model">>,
      <<"--guardrails">> }

HasUnderscore(t) == \E i \in 1..Len(t) : t[i] = "_"

\* C9 as stated: in every command of generate the value after --sampling is
\* sampling_mode with every underscore a hyphen, the value after --model is
\* the chosen model or use_case with every underscore a hyphen, and no
\* option value in the command has an underscore.
C9_NoUnderscoreInAnyOptionValue ==
    GenerateRan =>
        LET a == call.args
        IN  /\ Truthy(a.sampling_mode) =>
                  FlagValues(call.cmd, <<"--sampling">>) = {Replace(a.sampling_mode.v, "_", "-")}
            /\ Truthy(FinalModel(a)) =>
                  FlagValues(call.cmd, <<"--model">>) = {Replace(FinalModel(a).v, "_", "-")}
            /\ \A f \in ValueFlags : \A v \in FlagValues(call.cmd, f) : ~HasUnderscore(v)

\* C9, amended: in every command of generate the value after --sampling is
\* sampling_mode with every underscore a hyphen and the value after --model
\* is the chosen model or use_case with every underscore a hyphen, so
\* neither has an underscore; the values after --system-prompt and
\* --guardrails are the caller's, underscores included.
C9_SamplingAndModelHyphenated ==
    GenerateRan =>
        LET a == call.args
        IN  /\ Truthy(a.sampling_mode) =>
                  FlagValues(call.cmd, <<"--sampling">>) = {Replace(a.sampling_mode.v, "_", "-")}
            /\ Truthy(FinalModel(a)) =>
                  FlagValues(call.cmd, <<"--model">>) = {Replace(FinalModel(a).v, "_", "-")}
            /\ \A f \in { <<"--sampling">>, <<"--model">> } :
                  \A v \in FlagValues(call.cmd, f) : ~HasUnderscore(v)
            /\ Truthy(a.guardrails) =>
                  FlagValues(call.cmd, <<"--guardrails">>) = {a.guardrails.v}
            /\ Truthy(FinalSystemPrompt(a)) =>
                  FlagValues(call.cmd, <<"--system-prompt">>) = {FinalSystemPrompt(a).v}

\* a generate with sampling_mode "top_k" has run with --sampling top-k
C9_Witness ==
    /\ GenerateRan
    /\ call.args.sampling_mode = SomeText(<<"top", "_", "k">>)
    /\ FlagValues(call.cmd, <<"--sampling">>) = { <<"top", "-", "k">> }
    /\ call.args.use_case = SomeText(<<"content", "_", "tagging">>)
    /\ FlagValues(call.cmd, <<"--model">>) = { <<"content", "-", "tagging">> }

\* a transcribe that has started its process
TranscribeSpawned == call.op = "transcribe" /\ call.spawned = 1

\* C10: the command of transcribe holds the input path and --locale followed
\* by the locale, --stream iff stream, --fast iff fast, --redact iff redact,
\* and --json, --confidence and --alternatives, all three, iff
\* full_metadata; with every flag at its default it holds none of them.
C10_TranscribeFlags ==
    TranscribeSpawned =>
        LET a == call.args
            cmd == call.cmd
        IN  /\ Len(cmd) >= 4
            /\ cmd[2] = a.input_path
            /\ cmd[3] = <<"--locale">>
            /\ cmd[4] = a.locale
            /\ HasFlag(cmd, <<"--stream">>) <=> a.stream
            /\ HasFlag(cmd, <<"--fast">>) <=> a.fast
            /\ HasFlag(cmd, <<"--redact">>) <=> a.redact
            /\ \A f \in { <<"--json">>, <<"--confidence">>, <<"--alternatives">> } :
                  HasFlag(cmd, f) <=> a.full_metadata
            /\ (~a.stream /\ ~a.fast /\ ~a.redact /\ ~a.full_metadata) => Len(cmd) = 4

\* a transcribe with fast and full_metadata, and neither stream nor redact,
\* has started its process
C10_Witness ==
    /\ TranscribeSpawned
    /\ call.args.fast
    /\ call.args.full_metadata
    /\ ~call.args.stream
    /\ ~call.args.redact
    /\ call.args.locale = <<"es", "-", "ES">>
    /\ Len(call.cmd) = 8

\* a call of _get_binary has returned or raised
Resolved == pc = "done" /\ call.op = "_get_binary"

\* the call raised exc with a message holding part
RaisedWith(exc, part) ==
    /\ call.result.kind = "raise"
    /\ call.result.exc = exc
    /\ Contains(call.result.text, part)

\* the build step of the call exited non-zero: compilation-failed, with the
\* compiler's diagnostics
CompilationFailedRaised ==
    (call.spawned = 1 /\ proc.spawned /\ proc.rc # 0) =>
        /\ RaisedWith("RuntimeError", <<"Failed to compile ", call.args.name, ".swift: ">>)
        /\ Contains(call.result.text, proc.stderr)
        /\ ~Contains(call.result.text, <<"Swift compiler not found. Install Xcode command line tools: xcode-select --install">>)

\* the call found no compiler to run: toolchain-missing, told apart from
\* compilation-failed by its message
ToolchainMissingRaised ==
    (call.spawned = 1 /\ ~proc.spawned) =>
        /\ RaisedWith("RuntimeError", <<"Swift compiler not found. Install Xcode command line tools: xcode-select --install">>)
        /\ ~Contains(call.result.text, <<"Failed to compile ", call.args.name, ".swift: ">>)

SourceNotFoundRaised ==
    RaisedWith("FileNotFoundError", <<"Swift source not found: ">> \o SourcePath(call.args.name))

\* C11, as stated: for every state of the binary cache a resolver call for
\* a name that has no source file fails with source-not-found; a call whose
\* build step exits non-zero fails with compilation-failed carrying the
\* compiler's diagnostics; a call made with no compiler fails with
\* toolchain-missing, distinguishable from compilation-failed.
C11_MissingSourceAlwaysFails ==
    Resolved =>
        /\ call.args.src = 0 => SourceNotFoundRaised
        /\ CompilationFailedRaised
        /\ ToolchainMissingRaised

\* C11, amended: a resolver call for a name that has no source file and no
\* cached binary fails with source-not-found, and with a cached binary and
\* no source file it returns the cached path without compiling; a call
\* whose build step exits non-zero fails with compilation-failed carrying
\* the compiler's diagnostics; a call made with no compiler fails with
\* toolchain-missing, distinguishable from compilation-failed by its
\* message; a call that fails returns no path and leaves the cache as it was.
C11_ResolverFailures ==
    Resolved =>
        /\ (call.args.src = 0 /\ call.args.bin = 0) => SourceNotFoundRaised
        /\ (call.args.src = 0 /\ call.args.bin # 0) =>
              /\ call.result = ReturnText(BinaryPath(call.args.name))
              /\ call.spawned = 0
        /\ CompilationFailedRaised
        /\ ToolchainMissingRaised
        /\ call.result.kind \in {"raise", "return"}
        /\ call.result.kind = "raise" => bin[call.args.name] = call.args.bin

\* a resolver call found a stale cached binary and no compiler to rebuild it
C11_Witness ==
    /\ Resolved
    /\ call.args.bin # 0
    /\ call.args.src > call.args.bin
    /\ call.spawned = 1
    /\ ~proc.spawned
    /\ call.result.kind = "raise"

\* every line of the child's standard output has been yielded or dropped
AllLinesDelivered ==
    /\ iter.pos = Len(proc.lines)
    /\ iter.yielded = IF call.args.full_metadata
                      THEN JsonItemsOf(proc.lines, Strip)
                      ELSE TextItemsOf(proc.lines, Strip)

\* the order of a streaming call: the wait comes after the last line, and
\* the exit status decides how the sequence ends
StreamOrder ==
    pc = "streaming" =>
        /\ iter.waited => AllLinesDelivered
        /\ iter.waited <=> iter.state \in {"finished", "raised"}
        /\ iter.state = "raised" <=> (iter.waited /\ proc.rc # 0)
        /\ iter.state = "finished" <=> (iter.waited /\ proc.rc = 0)
        /\ iter.state = "raised" =>
              Contains(iter.error, <<"Transcription failed: ">>)
        /\ iter.state = "finished" => iter.error = <<>>
        /\ iter.last = "RuntimeError" => iter.state = "raised"

\* a next() on a sequence that has ended or failed yields nothing: it ends
\* with StopIteration and leaves the generator where it was
EndedStaysEnded ==
    (StreamEnded /\ pc' = "streaming") =>
        \/ iter' = iter
        \/ iter' = [iter EXCEPT !.last = "StopIteration"]

\* C12: in streaming transcription the process is waited on only after its
\* standard output is exhausted; the transcription failure of a non-zero
\* exit status is raised only after every line has been yielded or dropped
\* as unparseable; with exit status 0 the sequence ends normally; and a
\* sequence that has ended or failed yields nothing further.
C12_WaitAfterLastLine == [](StreamOrder) /\ [][EndedStaysEnded]_vars

\* a stream whose child exits non-zero has yielded both of its lines, has
\* raised the failure, and has then been asked for more
C12_Witness ==
    /\ pc = "streaming"
    /\ iter.state = "raised"
    /\ proc.rc # 0
    /\ Len(proc.lines) = 2
    /\ Len(iter.yielded) = 2
    /\ iter.last = "StopIteration"

\* next() waits in the read of process.stdout: no line, no end of file
ConsumerWaitsForChild ==
    \/ Reading /\ proc.outBuf = 0 /\ ~proc.exited
    \/ iter.state = "waiting" /\ ~proc.exited

\* the child waits in a write for the consumer to make room in a pipe
ChildWaitsForConsumer ==
    /\ ~proc.exited
    /\ \/ ChildAt(proc) = "out" /\ proc.outBuf = PipeCapacity
       \/ ChildAt(proc) = "err" /\ proc.errBuf = PipeCapacity

\* C13: with a child that has finitely many lines and a finite amount of
\* standard-error text to write, both through bounded pipes, and a consumer
\* that keeps pulling, consumer and child never reach a state where each
\* waits on the other (a state no step leaves, so that the sequence never
\* ends and the child never exits).
C13_NeverWaitOnEachOther == ~(ConsumerWaitsForChild /\ ChildWaitsForConsumer)

\* C14: compilation is atomic from the caller's point of view: after any
\* sequence of resolver calls, calls whose compilation failed part-way and
\* calls of several callers at once on the same name included, every call
\* that returns a path returns it with a complete, valid binary at that
\* path at the moment of return.
C14_ReturnedPathHoldsCompleteBinary ==
    \A c \in Callers :
        (call[c].at = "done" /\ call[c].result.kind = "return") => call[c].complete

\* the cached binary of name is there and not older than the source
Fresh(name) == bin[name] # 0 /\ src[name] <= bin[name]

\* a resolver call that found a cached binary no older than the source, or
\* no source for it, returned the cached path and left the cache alone
CachedPathReturned ==
    (Resolved /\ call.args.bin # 0 /\ call.args.src <= call.args.bin) =>
        /\ call.spawned = 0
        /\ call.result = ReturnText(BinaryPath(call.args.name))
        /\ bin[call.args.name] = call.args.bin

\* a call that ran the compiler and returned has the binary stamped now
CompiledStampedNow ==
    (Resolved /\ call.spawned = 1 /\ call.result.kind = "return") =>
        /\ proc.spawned
        /\ proc.rc = 0
        /\ call.result = ReturnText(BinaryPath(call.args.name))
        /\ bin[call.args.name] = now

\* while a name's binary is fresh and its source is left untouched, a
\* step leaves the binary alone, and a resolver call for the name returns
\* the cached path without compiling
FreshStaysCached ==
    \A name \in Names :
        (Fresh(name) /\ src'[name] = src[name]) =>
            /\ bin'[name] = bin[name]
            /\ (pc = "idle" /\ pc' = "done" /\ call'.args.name = name) =>
                  /\ call'.spawned = 0
                  /\ call'.result = ReturnText(BinaryPath(name))

\* C15, as stated: a resolver call runs the compiler exactly when no cached
\* binary exists for the name or the source's modification time is newer
\* than the cached binary's, and otherwise returns the cached path without
\* compiling and without changing the cache; so after a successful compile
\* the binary is fresh, and with the source left untouched every later
\* call returns the same path without compiling again.
C15_CompilesExactlyWhenStaleOrAbsent ==
    /\ [](Resolved =>
             (call.spawned = 1 <=>
                 (call.args.bin = 0 \/ call.args.src > call.args.bin)))
    /\ [](CachedPathReturned)
    /\ []((Resolved /\ call.spawned = 1 /\ call.result.kind = "return") =>
             Fresh(call.args.name))
    /\ [][FreshStaysCached]_vars

\* C15, amended: a resolver call runs the compiler exactly when the source
\* file exists and either no cached binary exists for the name or the
\* source's modification time is newer than the cached binary's; with
\* neither source nor cached binary it raises source-not-found; otherwise
\* it returns the cached path without compiling and without changing the
\* cache.  A successful compile stamps the binary with the time of the
\* compile; once the binary is not older than the source, and with the
\* source left untouched, every later call returns the same path without
\* compiling again.
C15_CompilesWhenSourceStaleOrUncached ==
    /\ [](Resolved =>
             (call.spawned = 1 <=>
                 /\ call.args.src # 0
                 /\ (call.args.bin = 0 \/ call.args.src > call.args.bin)))
    /\ []((Resolved /\ call.args.src = 0 /\ call.args.bin = 0) =>
             /\ SourceNotFoundRaised
             /\ bin[call.args.name] = 0)
    /\ [](CachedPathReturned)
    /\ [](CompiledStampedNow)
    /\ [][FreshStaysCached]_vars

\* a resolver call found the cached binary exactly as old as a source that
\* was written after the first compile, and returned it without compiling
C15_Witness ==
    /\ Resolved
    /\ call.args.bin > 1
    /\ call.args.src = call.args.bin
    /\ call.spawned = 0
    /\ call.result = ReturnText(BinaryPath(call.args.name))

====
